---- MODULE Spec2Model ----
(***************************************************************************)
(* Model of src/models/BranchingProcessNB.py: the negative-binomial        *)
(* branching process (class BranchingProcessNB) and the driver loop of     *)
(* create_table, which constructs one estimator per table row and asks it  *)
(* once for estimate_extinction_prob.                                      *)
(*                                                                         *)
(* The random source is numpy's default_rng(Seed) read through             *)
(* scipy.stats.nbinom.rvs.  Its output for a fixed seed and fixed (n, p)   *)
(* is a fixed but unknown sequence of offspring numbers: `stream' is that  *)
(* sequence, discovered value by value as the generator is first advanced  *)
(* past a position, and `rng.pos' is the number of values a generator has  *)
(* consumed.  A generator seeded again re-reads the same sequence.  R0 and *)
(* k only select the distribution behind `stream'; they take part in no    *)
(* branch of the code and are not state of the model.                      *)
(***************************************************************************)
EXTENDS Integers, Sequences, FiniteSets, TLC

\* ----------------------------------------------------------------- bounds
MaxG == 2          \* largest G_max tried
MaxTrials == 2     \* largest n_trials tried
MaxInfec == 1      \* largest max_infec tried
MaxCur == 2        \* largest `current' handed to _offspring_sum directly
StreamCap == 4     \* values the directly driven sampler may consume

\* ------------------------------------------------------ program constants
Seed == 101

VARIABLES
  G_max,        \* self.G_max
  max_infec,    \* self.max_infec
  n_trials,     \* argument of estimate_extinction_prob
  row,          \* index of the estimator being built / run (create_table loop)
  pc,           \* position of the program
  rng,          \* self.rng: [seed, pos]
  stream,       \* output of default_rng(Seed) through nbinom.rvs, as far as read
  current,      \* simulate_step: current
  next_gen,     \* simulate_step: next_gen
  g,            \* simulate_step: iterations of range(G_max) started
  t,            \* estimate_extinction_prob: iterations of range(n_trials) started
  extinct,      \* estimate_extinction_prob: extinct
  ret,          \* value returned by the last simulate_step
  exit,         \* return statement the last simulate_step left through
  trial_draws,  \* values next_gen has taken in the running trial, in order
  draws,        \* per estimator: every value returned by _offspring_sum, in order
  outcomes,     \* per estimator: every value returned by simulate_step, in order
  results,      \* per estimator: what estimate_extinction_prob produced
  returned,     \* every (exit, current, ret) a simulate_step has returned with
  last_call     \* last _offspring_sum call: [cur, total, before, after]

vars == << G_max, max_infec, n_trials, row, pc, rng, stream, current, next_gen,
           g, t, extinct, ret, exit, trial_draws, draws, outcomes, results,
           returned, last_call >>

\* rows of the table (k_list): two estimators built one after another with
\* the same parameters
Rows == {1, 2}

\* values one individual's nbinom draw takes in the model: none, the largest
\* count that does not blow up, and the smallest count that does
Offspring == {0, max_infec, max_infec + 1}

NoResult == [kind |-> "none", num |-> 0, den |-> 1]

\* ---------------------------------------------------------------- helpers
RECURSIVE SeqSum(_)
SeqSum(s) == IF s = << >> THEN 0 ELSE Head(s) + SeqSum(Tail(s))

IsPrefix(a, b) == Len(a) <= Len(b) /\ SubSeq(b, 1, Len(a)) = a

InclusiveRange(i, n) == i <= n

\* range(n): the loop body runs while the number of iterations started is < n
RangeHasNext(i, n) == i < n

SingleDraw(cur) == 1

\* _offspring_sum: how many values nbinom.rvs(size=current) takes from the
\* generator; none when the guard `current <= 0' returns early
DrawsConsumed(cur) == IF cur <= 0 THEN 0 ELSE cur

\* _offspring_sum: the value returned, given the values drawn
OffspringSum(cur, vals) == IF cur <= 0 THEN 0 ELSE SeqSum(vals)

OffByOneBlowsUp(n, bound) == n > bound + 1

\* simulate_step line 49: the blow-up test
BlowsUp(n, bound) == n > bound

InvertedLoopExitValue(cur) == (cur # 0)

\* simulate_step line 52: the value returned when the loop is exhausted
LoopExitValue(cur) == (cur = 0)

\* estimate_extinction_prob lines 60-61
CountExtinct(e, r) == IF r THEN e + 1 ELSE e

SurvivalValue(e, n) ==
  IF n = 0 THEN [kind |-> "ZeroDivisionError", num |-> n - e, den |-> n]
           ELSE [kind |-> "value", num |-> n - e, den |-> n]

\* estimate_extinction_prob line 62: extinct / n_trials as an exact fraction;
\* Python raises ZeroDivisionError for n_trials = 0
EstimateValue(e, n) ==
  IF n = 0 THEN [kind |-> "ZeroDivisionError", num |-> e, den |-> n]
           ELSE [kind |-> "value", num |-> e, den |-> n]

SharedRng(old) == old

\* __init__ line 21: a fresh generator seeded with the hard coded seed
FreshRng(old) == [seed |-> Seed, pos |-> 0]

\* the call _offspring_sum(cur) on the generator `rng': reads (and where
\* needed discovers) the next DrawsConsumed(cur) values of the stream
CallOffspringSum(cur) ==
  LET n      == DrawsConsumed(cur)
      before == rng.pos
      need   == IF before + n > Len(stream) THEN before + n - Len(stream) ELSE 0
  IN \E ext \in [1..need -> Offspring] :
       LET s2    == stream \o ext
           vals  == SubSeq(s2, before + 1, before + n)
           total == OffspringSum(cur, vals)
       IN /\ stream' = s2
          /\ rng' = [rng EXCEPT !.pos = before + n]
          /\ next_gen' = total
          /\ last_call' = [cur |-> cur, total |-> total,
                           before |-> before, after |-> before + n]

\* ------------------------------------------------------------------- Init
Init ==
  /\ G_max \in 0..MaxG
  /\ max_infec \in 0..MaxInfec
  /\ n_trials \in -1..MaxTrials
  /\ row = 1
  /\ pc = "new"
  /\ rng = [seed |-> Seed, pos |-> 0]
  /\ stream = << >>
  /\ current = 0
  /\ next_gen = 0
  /\ g = 0
  /\ t = 0
  /\ extinct = 0
  /\ ret = FALSE
  /\ exit = "none"
  /\ trial_draws = << >>
  /\ draws = [i \in Rows |-> << >>]
  /\ outcomes = [i \in Rows |-> << >>]
  /\ results = [i \in Rows |-> NoResult]
  /\ returned = {}
  /\ last_call = [cur |-> -1, total |-> 0, before |-> 0, after |-> 0]

\* ---------------------------------------------------------------- actions
\* __init__ (lines 10-21): stores the parameters unchecked, seeds the generator
Construct ==
  /\ pc = "new"
  /\ rng' = FreshRng(rng)
  /\ pc' = "idle"
  /\ UNCHANGED << G_max, max_infec, n_trials, row, stream, current, next_gen,
                  g, t, extinct, ret, exit, trial_draws, draws, outcomes,
                  results, returned, last_call >>

\* estimate_extinction_prob line 58
EstimateBegin ==
  /\ pc = "idle"
  /\ extinct' = 0
  /\ t' = 0
  /\ pc' = "trial_loop"
  /\ UNCHANGED << G_max, max_infec, n_trials, row, rng, stream, current,
                  next_gen, g, ret, exit, trial_draws, draws, outcomes,
                  results, returned, last_call >>

\* line 59 enters the loop body; line 60 calls simulate_step; line 40
TrialStart ==
  /\ pc = "trial_loop"
  /\ RangeHasNext(t, n_trials)
  /\ t' = t + 1
  /\ current' = 1
  /\ g' = 0
  /\ trial_draws' = << >>
  /\ exit' = "none"
  /\ pc' = "gen_loop"
  /\ UNCHANGED << G_max, max_infec, n_trials, row, rng, stream, next_gen,
                  extinct, ret, draws, outcomes, results, returned, last_call >>

\* line 41: one more iteration of range(G_max)
GenNext ==
  /\ pc = "gen_loop"
  /\ RangeHasNext(g, G_max)
  /\ g' = g + 1
  /\ pc' = "check"
  /\ UNCHANGED << G_max, max_infec, n_trials, row, rng, stream, current,
                  next_gen, t, extinct, ret, exit, trial_draws, draws,
                  outcomes, results, returned, last_call >>

\* line 43: `if current == 0: return True'
CheckDied ==
  /\ pc = "check"
  /\ IF current = 0
       THEN /\ ret' = TRUE
            /\ exit' = "died"
            /\ pc' = "trial_ret"
       ELSE /\ pc' = "sample"
            /\ UNCHANGED << ret, exit >>
  /\ UNCHANGED << G_max, max_infec, n_trials, row, rng, stream, current,
                  next_gen, g, t, extinct, trial_draws, draws, outcomes,
                  results, returned, last_call >>

\* line 46: next_gen = self._offspring_sum(current)
Sample ==
  /\ pc = "sample"
  /\ CallOffspringSum(current)
  /\ trial_draws' = Append(trial_draws, next_gen')
  /\ draws' = [draws EXCEPT ![row] = Append(@, next_gen')]
  /\ pc' = "blowup"
  /\ UNCHANGED << G_max, max_infec, n_trials, row, current, g, t, extinct,
                  ret, exit, outcomes, results, returned >>

\* line 49: `if next_gen > self.max_infec: return False'; otherwise the loop
\* body ends here: nothing is assigned to current
Blowup ==
  /\ pc = "blowup"
  /\ IF BlowsUp(next_gen, max_infec)
       THEN /\ ret' = FALSE
            /\ exit' = "blewup"
            /\ pc' = "trial_ret"
       ELSE /\ pc' = "gen_loop"
            /\ UNCHANGED << ret, exit >>
  /\ UNCHANGED << G_max, max_infec, n_trials, row, rng, stream, current,
                  next_gen, g, t, extinct, trial_draws, draws, outcomes,
                  results, returned, last_call >>

\* line 52: range(G_max) is exhausted, `return current == 0'
LoopExit ==
  /\ pc = "gen_loop"
  /\ ~RangeHasNext(g, G_max)
  /\ ret' = LoopExitValue(current)
  /\ exit' = "cap"
  /\ pc' = "trial_ret"
  /\ UNCHANGED << G_max, max_infec, n_trials, row, rng, stream, current,
                  next_gen, g, t, extinct, trial_draws, draws, outcomes,
                  results, returned, last_call >>

\* lines 60-61: back in estimate_extinction_prob with simulate_step's value
TrialReturn ==
  /\ pc = "trial_ret"
  /\ extinct' = CountExtinct(extinct, ret)
  /\ outcomes' = [outcomes EXCEPT ![row] = Append(@, ret)]
  /\ returned' = returned \cup {[exit |-> exit, current |-> current, ret |-> ret]}
  /\ pc' = "trial_loop"
  /\ UNCHANGED << G_max, max_infec, n_trials, row, rng, stream, current,
                  next_gen, g, t, ret, exit, trial_draws, draws, results,
                  last_call >>

\* line 62: range(n_trials) is exhausted, `return extinct / n_trials'
EstimateReturn ==
  /\ pc = "trial_loop"
  /\ ~RangeHasNext(t, n_trials)
  /\ results' = [results EXCEPT ![row] = EstimateValue(extinct, n_trials)]
  /\ pc' = IF results'[row].kind = "value" THEN "est_done" ELSE "raised"
  /\ UNCHANGED << G_max, max_infec, n_trials, row, rng, stream, current,
                  next_gen, g, t, extinct, ret, exit, trial_draws, draws,
                  outcomes, returned, last_call >>

\* create_table lines 70-77: the row is recorded, the next estimator is built
NextRow ==
  /\ pc = "est_done"
  /\ IF row + 1 \in Rows
       THEN /\ row' = row + 1
            /\ pc' = "new"
       ELSE /\ pc' = "done"
            /\ UNCHANGED row
  /\ UNCHANGED << G_max, max_infec, n_trials, rng, stream, current, next_gen,
                  g, t, extinct, ret, exit, trial_draws, draws, outcomes,
                  results, returned, last_call >>

Next ==
  \/ Construct
  \/ EstimateBegin
  \/ TrialStart
  \/ GenNext
  \/ CheckDied
  \/ Sample
  \/ Blowup
  \/ LoopExit
  \/ TrialReturn
  \/ EstimateReturn
  \/ NextRow

Spec == Init /\ [][Next]_vars

\* ------------------------------------------------ the sampler on its own
\* _offspring_sum called directly on one estimator, with any current count
InitSampler ==
  /\ G_max = 1
  /\ max_infec = 1
  /\ n_trials = 1
  /\ row = 1
  /\ pc = "sampler"
  /\ rng = FreshRng([seed |-> Seed, pos |-> 0])
  /\ stream = << >>
  /\ current = 0
  /\ next_gen = 0
  /\ g = 0
  /\ t = 0
  /\ extinct = 0
  /\ ret = FALSE
  /\ exit = "none"
  /\ trial_draws = << >>
  /\ draws = [i \in Rows |-> << >>]
  /\ outcomes = [i \in Rows |-> << >>]
  /\ results = [i \in Rows |-> NoResult]
  /\ returned = {}
  /\ last_call = [cur |-> -1, total |-> 0, before |-> 0, after |-> 0]

SamplerCall ==
  /\ pc = "sampler"
  /\ \E c \in 0..MaxCur :
       /\ rng.pos + DrawsConsumed(c) <= StreamCap
       /\ current' = c
       /\ CallOffspringSum(c)
  /\ UNCHANGED << G_max, max_infec, n_trials, row, pc, g, t, extinct, ret,
                  exit, trial_draws, draws, outcomes, results, returned >>

SpecSampler == InitSampler /\ [][SamplerCall]_vars

\* ================================================================ claims
Valid == G_max >= 1 /\ max_infec > 0 /\ n_trials > 0

Terminal == {"done", "raised"}

InTrial == {"gen_loop", "check", "sample", "blowup", "trial_ret"}

InEstimate == InTrial \cup {"trial_loop"}

Last(s) == s[Len(s)]

TrueCount(s) == Cardinality({j \in 1..Len(s) : s[j]})

\* a generation of the running trial yielded 0 and none before it blew up
ExtinctByDraws ==
  \E j \in 1..Len(trial_draws) :
    /\ trial_draws[j] = 0
    /\ \A i \in 1..(j - 1) : trial_draws[i] <= max_infec

\* the terminal state of the trial state machine a return stands for
OutcomeOf(r) ==
  IF r.exit = "blewup" THEN "Exploded"
  ELSE IF r.exit = "died" \/ r.current = 0 THEN "Extinct"
  ELSE "Survived"

\* C1: once a generation's next_gen has passed the blow-up test, the trial's
\* current count equals that next_gen, so the next generation is sampled
\* from next_gen individuals.
C1_CurrentFollowsNextGen ==
  (pc \in {"gen_loop", "check", "sample"} /\ trial_draws # << >>)
    => current = Last(trial_draws)

\* C2: a trial returns True exactly when some generation yielded 0 with no
\* earlier generation above max_infec.
C2_ExtinctFlag ==
  pc = "trial_ret" => (ret <=> ExtinctByDraws)

\* C3: when every offspring draw is 0, every trial is extinct and the
\* estimate is 1, for n_trials > 0 and G_max >= 1.
C3_DegenerateAllExtinct ==
  (G_max >= 1 /\ n_trials > 0 /\ \A i \in 1..Len(stream) : stream[i] = 0)
    => /\ \A j \in 1..Len(outcomes[row]) : outcomes[row][j]
       /\ results[row].kind = "value" => results[row].num = results[row].den

\* C4: for valid parameters the estimate is extinct_count / n_trials, where
\* extinct_count is the number of trials that returned True, a value in
\* [0, 1]; while the estimate runs the extinct counter never exceeds the
\* number of trials completed.
C4_EstimateInUnitInterval ==
  Valid =>
    /\ pc \in InEstimate => (0 <= extinct /\ extinct <= Len(outcomes[row]))
    /\ \A i \in Rows :
         results[i].kind # "none" =>
           /\ results[i].kind = "value"
           /\ results[i].den = n_trials
           /\ results[i].num = TrueCount(outcomes[i])
           /\ 0 <= results[i].num /\ results[i].num <= results[i].den

C4_Witness ==
  /\ Valid
  /\ n_trials >= 2
  /\ pc = "est_done"
  /\ results[row].kind = "value"

\* C5: with an invalid parameter no offspring sample is drawn and no
\* estimate value is returned: the call fails with InvalidParameter.
C5_InvalidRejected ==
  ~Valid =>
    \A i \in Rows : /\ draws[i] = << >>
                    /\ results[i].kind \in {"none", "InvalidParameter"}

\* C6: in a trial no offspring is sampled after a generation whose count
\* exceeded max_infec, and that trial returns False through the blow-up exit.
C6_ExplodedStopsSampling ==
  /\ \A j \in 1..(Len(trial_draws) - 1) : trial_draws[j] <= max_infec
  /\ (trial_draws # << >> /\ Last(trial_draws) > max_infec)
       => /\ pc \notin {"gen_loop", "check", "sample"}
          /\ pc = "trial_ret" => (ret = FALSE /\ exit = "blewup")

C6_Witness ==
  /\ pc = "trial_ret"
  /\ exit = "blewup"
  /\ Last(trial_draws) > max_infec
  /\ Len(trial_draws) < G_max

C8_Determinism ==
  \A i, j \in Rows :
    i < j =>
      /\ IsPrefix(draws[j], draws[i])
      /\ IsPrefix(outcomes[j], outcomes[i])
      /\ results[j].kind # "none" =>
           /\ results[j] = results[i]
           /\ draws[j] = draws[i]
           /\ outcomes[j] = outcomes[i]

C8_Witness ==
  /\ pc = "done"
  /\ Len(draws[2]) >= 2
  /\ draws[2][1] # draws[2][2]
  /\ Len(outcomes[2]) >= 2

\* C9: _offspring_sum called with current count 0 returns 0 and leaves the
\* random source where it was.
C9_ZeroShortCircuits ==
  last_call.cur = 0 =>
    /\ last_call.total = 0
    /\ last_call.after = last_call.before
    /\ next_gen = 0
    /\ rng.pos = last_call.before

C9_Witness ==
  /\ pc = "sampler"
  /\ last_call.cur = 0
  /\ rng.pos > 0

\* steps the program can still take, at most: 4 per generation, 3 more per
\* trial, 4 more per estimator
TrialCost == 4 * G_max + 3

RowCost == 4 + (IF n_trials > 0 THEN n_trials ELSE 0) * TrialCost

TrialsLeft == IF n_trials > t THEN n_trials - t ELSE 0

Rank ==
  Cardinality({i \in Rows : i > row}) * RowCost +
  CASE pc = "new"        -> RowCost
    [] pc = "idle"       -> RowCost - 1
    [] pc = "trial_loop" -> TrialsLeft * TrialCost + 2
    [] pc = "gen_loop"   -> TrialsLeft * TrialCost + 2 + 4 * (G_max - g) + 2
    [] pc = "check"      -> TrialsLeft * TrialCost + 2 + 4 * (G_max - g) + 5
    [] pc = "sample"     -> TrialsLeft * TrialCost + 2 + 4 * (G_max - g) + 4
    [] pc = "blowup"     -> TrialsLeft * TrialCost + 2 + 4 * (G_max - g) + 3
    [] pc = "trial_ret"  -> TrialsLeft * TrialCost + 2 + 1
    [] pc = "est_done"   -> 1
    [] OTHER             -> 0

C10_Bounded ==
  /\ Len(trial_draws) <= G_max
  /\ pc \in InTrial => Len(outcomes[row]) = t - 1
  /\ pc = "trial_loop" => Len(outcomes[row]) = t
  /\ (results[row].kind # "none" /\ n_trials >= 0)
       => Len(outcomes[row]) = n_trials
  /\ Rank >= 0
  /\ pc \in Terminal \/ ENABLED Next

\* C10: every trial terminates: a trial calls the sampler at most G_max
\* times, the estimate runs exactly n_trials trials one after another on the
\* same random source, and every step brings the program closer to its end.
C10_Terminates ==
  /\ []C10_Bounded
  /\ [][Rank' < Rank]_vars
  /\ [][(pc \in InTrial /\ pc' \in InEstimate) => rng'.seed = rng.seed /\ rng'.pos >= rng.pos]_vars

C10_Witness ==
  /\ pc = "done"
  /\ n_trials >= 2
  /\ G_max >= 2
  /\ Len(draws[1]) = n_trials * G_max

====
